---- MODULE Spec2Model ----
(***************************************************************************)
(* A model of ocpsvg/ocp.py: wire closure (closed_wire), nested face       *)
(* resolution (faces_from_wire_soup) and curve decomposition into Bezier   *)
(* segments (curve_to_beziers, bspline_to_beziers).                        *)
(*                                                                         *)
(* Geometry is one-dimensional and integral: a point is a natural number   *)
(* of grid steps, and the coincidence tolerance _TOLERANCE is one step, so *)
(* two points are "equal within tolerance" when they are at most one step  *)
(* apart.                                                                  *)
(***************************************************************************)
EXTENDS Integers, Naturals, Sequences, FiniteSets, TLC

VARIABLES
    pc,          \* position of the call under study
    wire,        \* closed_wire: the input wire
    result,      \* closed_wire: the run of closed_wire(wire)
    again,       \* closed_wire: the run of closed_wire on the first result
    wires,       \* faces_from_wire_soup: the input wires
    plane,       \* faces_from_wire_soup: BRepLib_FindSurface(...).Found()
    fixed,       \* faces_from_wire_soup: the wires yielded by fix_wires
    included_in, \* faces_from_wire_soup: for each face, the faces it is inside
    groups,      \* faces_from_wire_soup: outers_and_inners, in insertion order
    faces,       \* faces_from_wire_soup: the faces yielded, in order
    warnings,    \* faces_from_wire_soup: the arguments of logger.warn, in order
    curve,       \* curve_to_beziers: the input curve
    max_degree,  \* curve_to_beziers: the caller's max_degree
    beziers      \* curve_to_beziers: the segments yielded, in order

vars == <<pc, wire, result, again, wires, plane, fixed, included_in, groups,
          faces, warnings, curve, max_degree, beziers>>

wireVars == <<wire, result, again>>
soupVars == <<wires, plane, fixed, included_in, groups, faces, warnings>>
curveVars == <<curve, max_degree, beziers>>

(***************************************************************************)
(* Bounds of the model.                                                    *)
(***************************************************************************)
MaxCoord == 2
MaxEdges == 3
MaxWires == 4
MaxAnyWires == 3
MaxCurveDegree == 5
MaxMaxDegree == 4
MaxArcs == 2

(***************************************************************************)
(* Points and tolerance.                                                   *)
(***************************************************************************)
_TOLERANCE == 1

Points == 0..MaxCoord

Distance(p, q) == IF p >= q THEN p - q ELSE q - p

\* gp_Pnt.IsEqual(other, tolerance)
IsEqual(p, q, tol) == Distance(p, q) <= tol

(***************************************************************************)
(* Wires.  A wire is its ordered edges, each with the point where its      *)
(* curve starts (at FirstParameter) and ends (at LastParameter), and for   *)
(* each edge whether its end vertex is the very vertex at which the next   *)
(* edge starts (the next of the last edge is the first edge).              *)
(***************************************************************************)
Edges == [s : Points, e : Points]

NextEdge(w, i) == IF i = Len(w.edges) THEN 1 ELSE i + 1

\* a shared vertex lies at one place: the two curve ends it joins coincide
\* within tolerance
WellFormed(w) ==
    \A i \in 1..Len(w.edges) :
        w.shared[i] => IsEqual(w.edges[i].e, w.edges[NextEdge(w, i)].s, _TOLERANCE)

WiresOfLength(n) ==
    {w \in [edges : [1..n -> Edges], shared : [1..n -> BOOLEAN]] : WellFormed(w)}

\* TopoDS_Wire(): a wire without edges
EmptyWire == [edges |-> <<>>, shared |-> <<>>]

\* BRep_Tool.IsClosed_s: the wire has a vertex, and no vertex is a free end
is_wire_closed(w) ==
    /\ Len(w.edges) > 0
    /\ \A i \in 1..Len(w.edges) : w.shared[i]

\* variant: the segment runs the other way
SegmentEdge_swapped(start, end) == [s |-> end, e |-> start]

\* edge_from_curve(segment_curve(start, end)): a new edge with its own vertices
SegmentEdge(start, end) == [s |-> start, e |-> end]

\* ShapeExtend_WireData: AddOriented(wire), AddOriented(edge), Wire()
AddOriented(w, edge) ==
    [edges |-> Append(w.edges, edge), shared |-> Append(w.shared, FALSE)]

\* ShapeFix_Wire(wire, TopoDS_Face(), _TOLERANCE) with FixClosed() and
\* FixConnected(): edge ends that meet within tolerance get one vertex, between
\* consecutive edges and between the last edge and the first
FixWire(w) ==
    [edges |-> w.edges,
     shared |-> [i \in 1..Len(w.edges) |->
                    \/ w.shared[i]
                    \/ IsEqual(w.edges[i].e, w.edges[NextEdge(w, i)].s, _TOLERANCE)]]

\* a run of closed_wire that returns its argument
Untouched(w) == [wire |-> w, appended |-> FALSE, repaired |-> FALSE]

\* variant: the closing segment is appended without comparing start and end
ClosedWireRun_always_append(w) ==
    IF is_wire_closed(w) THEN Untouched(w)
    ELSE IF Len(w.edges) < 2 THEN Untouched(w)
    ELSE LET start == w.edges[1].s
             end == w.edges[Len(w.edges)].e
         IN  [wire |-> FixWire(AddOriented(w, SegmentEdge(end, start))),
              appended |-> TRUE, repaired |-> TRUE]

\* closed_wire(wire): the wire returned, whether a closing segment was
\* appended, and whether the ShapeFix_Wire pass ran
ClosedWireRun(w) ==
    IF is_wire_closed(w) THEN Untouched(w)
    ELSE IF Len(w.edges) < 2 THEN Untouched(w)
    ELSE LET start == w.edges[1].s
             end == w.edges[Len(w.edges)].e
             differ == ~IsEqual(start, end, _TOLERANCE)
             extended == IF differ THEN AddOriented(w, SegmentEdge(end, start))
                         ELSE w
         IN  [wire |-> FixWire(extended), appended |-> differ, repaired |-> TRUE]

closed_wire(w) == ClosedWireRun(w).wire

NoRun == [wire |-> EmptyWire, appended |-> FALSE, repaired |-> FALSE]

(***************************************************************************)
(* closed_wire applied to a wire, and then to the wire it returned.        *)
(***************************************************************************)
SoupIdle ==
    /\ wires = <<>> /\ plane = TRUE /\ fixed = <<>> /\ included_in = <<>>
    /\ groups = <<>> /\ faces = <<>> /\ warnings = <<>>

CurveIdle ==
    /\ curve = [none |-> TRUE] /\ max_degree = 3 /\ beziers = <<>>

WireIdle == wire = EmptyWire /\ result = NoRun /\ again = NoRun

InitWire ==
    /\ pc = "call"
    /\ \E n \in 0..MaxEdges : wire \in WiresOfLength(n)
    /\ result = NoRun
    /\ again = NoRun
    /\ SoupIdle
    /\ CurveIdle

ClosedWire ==
    /\ pc = "call"
    /\ result' = ClosedWireRun(wire)
    /\ pc' = "closed"
    /\ UNCHANGED <<wire, again, soupVars, curveVars>>

ClosedWireAgain ==
    /\ pc = "closed"
    /\ again' = ClosedWireRun(result.wire)
    /\ pc' = "reclosed"
    /\ UNCHANGED <<wire, result, soupVars, curveVars>>

NextWire == ClosedWire \/ ClosedWireAgain

SpecWire == InitWire /\ [][NextWire]_vars

(***************************************************************************)
(* faces_from_wire_soup.  Wires and candidate faces are known by their     *)
(* position 1..n in the input (0..n-1 in the source).                      *)
(***************************************************************************)

\* the wires a soup is made of: a closed loop, an open path of two edges
\* that wants a closing segment, and a lone open edge
SoupSamples ==
    << [edges |-> <<[s |-> 0, e |-> 2], [s |-> 2, e |-> 0]>>, shared |-> <<TRUE, TRUE>>],
       [edges |-> <<[s |-> 0, e |-> 1], [s |-> 1, e |-> 2]>>, shared |-> <<TRUE, FALSE>>],
       [edges |-> <<[s |-> 0, e |-> 2]>>, shared |-> <<FALSE>>] >>

\* the soups of n wires: the samples in turn, starting from any of them
SoupInputs(n) ==
    {[i \in 1..n |-> SoupSamples[((i + k) % Len(SoupSamples)) + 1]] :
        k \in 1..Len(SoupSamples)}

\* variant: no special case for an empty collection
are_wires_coplanar_strict(ws, found) == found

\* are_wires_coplanar(wires)
are_wires_coplanar(ws, found) == ws = <<>> \/ found

\* the ordered pairs (i, j), i != j, that BRepFeat.IsInside_s is asked about
Pairs(n) == {p \in (1..n) \X (1..n) : p[1] # p[2]}

\* a nesting of n loops that do not intersect: f[i] is the loop right around
\* loop i, or 0 when no loop is around it
RECURSIVE Around(_, _, _)
Around(f, i, k) ==
    IF k = 0 \/ f[i] = 0 THEN {} ELSE {f[i]} \cup Around(f, f[i], k - 1)

Nestings(n) == {f \in [1..n -> 0..n] : \A i \in 1..n : i \notin Around(f, i, n)}

\* the pairs (i, j) with loop i truly inside loop j
TrulyInside(f, n) == {p \in Pairs(n) : p[2] \in Around(f, p[1], n)}

\* what BRepFeat.IsInside_s may answer yes on, over all pairs of n faces: on up
\* to MaxAnyWires faces anything at all (wires that intersect, coincide, or a
\* kernel that contradicts itself); on more faces, the truth about some nesting
\* with at most one pair answered wrongly
InsideAnswers(n) ==
    (IF n <= MaxAnyWires THEN SUBSET Pairs(n) ELSE {})
    \cup UNION {LET truth == TrulyInside(f, n)
                IN  {truth} \cup {(truth \ {p}) \cup ({p} \ truth) : p \in Pairs(n)} :
                f \in Nestings(n)}

\* included_in after the double loop, when IsInside_s answered yes on `inside`:
\* for each i the set of the j with face i inside face j (empty: no entry)
IncludedIn(n, inside) == [i \in 1..n |-> {j \in 1..n : <<i, j>> \in inside}]

\* included_in.get(i, set())
Ancestors(inc, i) == inc[i]

\* len(included_in.get(i, set()))
NbAncestors(inc, i) == Cardinality(inc[i])

\* variant: the first ancestor with the fewest ancestors of its own
Parent_outermost(inc, i) ==
    CHOOSE p \in Ancestors(inc, i) :
        \A a \in Ancestors(inc, i) :
            \/ NbAncestors(inc, a) > NbAncestors(inc, p)
            \/ NbAncestors(inc, a) = NbAncestors(inc, p) /\ p <= a

\* max(ancestors, key=lambda i: len(included_in.get(i, set()))): the first
\* ancestor, in the set's iteration order (ascending for small integers),
\* with the greatest number of ancestors of its own
Parent(inc, i) ==
    CHOOSE p \in Ancestors(inc, i) :
        \A a \in Ancestors(inc, i) :
            \/ NbAncestors(inc, a) < NbAncestors(inc, p)
            \/ NbAncestors(inc, a) = NbAncestors(inc, p) /\ p <= a

HasKey(gs, k) == \E x \in 1..Len(gs) : gs[x].key = k

\* outers_and_inners.setdefault(k, ([], []))
SetDefault(gs, k) ==
    IF HasKey(gs, k) THEN gs
    ELSE Append(gs, [key |-> k, outers |-> <<>>, inners |-> <<>>])

AppendInner(gs, k, i) ==
    [x \in 1..Len(gs) |->
        IF gs[x].key = k THEN [gs[x] EXCEPT !.inners = Append(@, i)] ELSE gs[x]]

AppendOuter(gs, k, i) ==
    [x \in 1..Len(gs) |->
        IF gs[x].key = k THEN [gs[x] EXCEPT !.outers = Append(@, i)] ELSE gs[x]]

\* variant: every wire with an ancestor is an inner ring, whatever the parity
AssignWire_no_parity(inc, gs, i) ==
    IF NbAncestors(inc, i) > 0
    THEN LET parent_i == Parent(inc, i)
         IN  AppendInner(SetDefault(gs, parent_i), parent_i, i)
    ELSE AppendOuter(SetDefault(gs, i), i, i)

\* one turn of the loop over range(len(faces))
AssignWire(inc, gs, i) ==
    IF NbAncestors(inc, i) % 2 = 1
    THEN LET parent_i == Parent(inc, i)
         IN  AppendInner(SetDefault(gs, parent_i), parent_i, i)
    ELSE AppendOuter(SetDefault(gs, i), i, i)

RECURSIVE AssignFrom(_, _, _, _)
AssignFrom(inc, n, i, gs) ==
    IF i > n THEN gs ELSE AssignFrom(inc, n, i + 1, AssignWire(inc, gs, i))

\* outers_and_inners once the loop is over
OutersAndInners(inc, n) == AssignFrom(inc, n, 1, <<>>)

\* face_from_wires(outer_wire, inner_wires); "group" and "simple" record which
\* entry of outers_and_inners the face came from, and by which branch
face_from_wires(outer, inners, k, simple) ==
    [outer |-> outer, holes |-> inners, group |-> k, simple |-> simple]

\* variant: every entry is yielded as simple faces
GroupFaces_all_simple(g) ==
    LET chain == g.outers \o g.inners
    IN  [x \in 1..Len(chain) |-> face_from_wires(chain[x], <<>>, g.key, TRUE)]

\* variant: the fallback yields the outer wires only
GroupFaces_outers_only(g) ==
    IF Len(g.outers) = 1
    THEN <<face_from_wires(g.outers[1], g.inners, g.key, FALSE)>>
    ELSE [x \in 1..Len(g.outers) |-> face_from_wires(g.outers[x], <<>>, g.key, TRUE)]

\* what one entry of outers_and_inners.values() yields
GroupFaces(g) ==
    IF Len(g.outers) = 1
    THEN <<face_from_wires(g.outers[1], g.inners, g.key, FALSE)>>
    ELSE LET chain == g.outers \o g.inners
         IN  [x \in 1..Len(chain) |-> face_from_wires(chain[x], <<>>, g.key, TRUE)]

\* what logger.warn is called with for one entry
GroupWarnings(g) == IF Len(g.outers) = 1 THEN <<>> ELSE <<Len(g.outers)>>

RECURSIVE YieldFrom(_, _)
YieldFrom(gs, x) ==
    IF x > Len(gs) THEN <<>> ELSE GroupFaces(gs[x]) \o YieldFrom(gs, x + 1)

RECURSIVE WarnFrom(_, _)
WarnFrom(gs, x) ==
    IF x > Len(gs) THEN <<>> ELSE GroupWarnings(gs[x]) \o WarnFrom(gs, x + 1)

\* BRepBuilderAPI_MakeFace(wire, True).Face(): the candidate face of wire i,
\* which has that wire as its outer wire and no hole
MakeFace(i) == [outer |-> i, holes |-> <<>>, group |-> i, simple |-> TRUE]

\* fix_wires(): closed_wire of every wire, in order
fix_wires(ws) == [i \in 1..Len(ws) |-> closed_wire(ws[i])]

InitSoup ==
    /\ pc = "created"
    /\ \E n \in 0..MaxWires : wires \in SoupInputs(n)
    /\ plane \in BOOLEAN
    /\ fixed = <<>> /\ included_in = <<>> /\ groups = <<>>
    /\ faces = <<>> /\ warnings = <<>>
    /\ WireIdle
    /\ CurveIdle

\* raise ValueError("wires not coplanar")
RaiseNotCoplanar ==
    /\ pc = "created"
    /\ ~are_wires_coplanar(wires, plane)
    /\ pc' = "raised"
    /\ UNCHANGED <<wireVars, soupVars, curveVars>>

\* len(faces) < 2: yield from faces
YieldFew ==
    /\ pc = "created"
    /\ are_wires_coplanar(wires, plane)
    /\ Len(wires) < 2
    /\ fixed' = fix_wires(wires)
    /\ faces' = [i \in 1..Len(wires) |-> MakeFace(i)]
    /\ pc' = "done"
    /\ UNCHANGED <<wireVars, wires, plane, included_in, groups, warnings, curveVars>>

\* two faces or more: containment, parity, hole assignment, output
Nest ==
    /\ pc = "created"
    /\ are_wires_coplanar(wires, plane)
    /\ Len(wires) >= 2
    /\ fixed' = fix_wires(wires)
    /\ \E inside \in InsideAnswers(Len(wires)) :
         included_in' = IncludedIn(Len(wires), inside)
    /\ groups' = OutersAndInners(included_in', Len(wires))
    /\ faces' = YieldFrom(groups', 1)
    /\ warnings' = WarnFrom(groups', 1)
    /\ pc' = "done"
    /\ UNCHANGED <<wireVars, wires, plane, curveVars>>

NextSoup == RaiseNotCoplanar \/ YieldFew \/ Nest

SpecSoup == InitSoup /\ [][NextSoup]_vars

(***************************************************************************)
(* curve_to_beziers and bspline_to_beziers.  A curve is its type, its      *)
(* degree and rationality (Bezier and B-spline curves), its parameter      *)
(* range and the points it takes at the two ends of that range.  A Bezier  *)
(* segment is its degree, its rationality and its first and last poles.    *)
(***************************************************************************)
BEZIER_MAX_DEGREE == 25

CurveTypes == {"line", "bezier", "bspline", "other"}

CurvesOfDegree(maxdeg) ==
    {c \in [type : CurveTypes, degree : 1..maxdeg, rational : BOOLEAN,
            first : {0}, last : {1}, start : Points, end : Points] :
        /\ c.first < c.last
        /\ c.type = "line" => c.degree = 1 /\ ~c.rational}

FirstParameter(c) == c.first

LastParameter(c) == c.last

\* adaptor.Value(t), for t one of the two ends of the parameter range
Value(c, t) == IF t = c.first THEN c.start ELSE c.end

\* what the kernel answers during one call: the B-spline that
\* GeomConvert.CurveToBSplineCurve_s makes of a curve of another type, whether
\* GeomConvert_ApproxCurve is done with a result, the degree of that result,
\* the number of arcs of GeomConvert_BSplineCurveToBezierCurve and the points
\* where consecutive arcs meet
KernelAnswers(maxdeg) ==
    [converted : [degree : 1..MaxCurveDegree, rational : BOOLEAN],
     approx_done : BOOLEAN,
     approx_degree : 1..maxdeg,
     nb_arcs : 1..MaxArcs,
     joint : Points]

Raised == [raised |-> TRUE, yielded |-> <<>>]

Yielded(segments) == [raised |-> FALSE, yielded |-> segments]

\* bezier_curve(*controls)
bezier_curve(controls) ==
    IF ~(2 <= Len(controls) /\ Len(controls) <= BEZIER_MAX_DEGREE)
    THEN Raised
    ELSE Yielded(<<[degree |-> Len(controls) - 1, rational |-> FALSE,
                    ends |-> <<controls[1], controls[Len(controls)]>>]>>)

\* curve_to_bspline(bezier): the same curve as a B-spline
curve_to_bspline(c) == [degree |-> c.degree, rational |-> c.rational,
                        start |-> c.start, end |-> c.end]

\* GeomConvert_BSplineCurveToBezierCurve(bspline): Arc(1) .. Arc(NbArcs()),
\* each of the degree and rationality of the B-spline
Arcs(bspline, k) ==
    [i \in 1..k.nb_arcs |->
        [degree |-> bspline.degree, rational |-> bspline.rational,
         ends |-> << IF i = 1 THEN bspline.start ELSE k.joint,
                     IF i = k.nb_arcs THEN bspline.end ELSE k.joint >>]]

\* bspline_to_beziers(bspline, tolerance, max_degree, max_segments)
bspline_to_beziers(bspline, maxdeg, k) ==
    IF bspline.degree > 3 \/ bspline.rational
    THEN IF k.approx_done
         THEN Yielded(Arcs([degree |-> k.approx_degree, rational |-> FALSE,
                            start |-> bspline.start, end |-> bspline.end], k))
         ELSE Raised
    ELSE Yielded(Arcs(bspline, k))

\* curve_to_beziers(curve_or_adaptor, tolerance, max_degree, max_segments)
curve_to_beziers(c, maxdeg, k) ==
    IF c.type = "line"
    THEN LET start == Value(c, FirstParameter(c))
             end == Value(c, FirstParameter(c))
         IN  bezier_curve(<<start, end>>)
    ELSE IF c.type = "bezier"
    THEN IF c.degree > maxdeg \/ c.rational
         THEN bspline_to_beziers(curve_to_bspline(c), maxdeg, k)
         ELSE Yielded(<<[degree |-> c.degree, rational |-> c.rational,
                         ends |-> <<c.start, c.end>>]>>)
    ELSE IF c.type = "bspline"
    THEN bspline_to_beziers([degree |-> c.degree, rational |-> c.rational,
                             start |-> c.start, end |-> c.end], maxdeg, k)
    ELSE bspline_to_beziers([degree |-> k.converted.degree,
                             rational |-> k.converted.rational,
                             start |-> c.start, end |-> c.end], maxdeg, k)

InitCurve ==
    /\ pc = "call"
    /\ curve \in CurvesOfDegree(MaxCurveDegree)
    /\ max_degree \in 1..MaxMaxDegree
    /\ beziers = <<>>
    /\ WireIdle
    /\ SoupIdle

\* the generator run to its end, every segment it yields collected
CurveToBeziers ==
    /\ pc = "call"
    /\ \E k \in KernelAnswers(max_degree) :
         /\ beziers' = curve_to_beziers(curve, max_degree, k).yielded
         /\ pc' = IF curve_to_beziers(curve, max_degree, k).raised
                  THEN "raised" ELSE "done"
    /\ UNCHANGED <<curve, max_degree, wireVars, soupVars>>

NextCurve == CurveToBeziers

SpecCurve == InitCurve /\ [][NextCurve]_vars

(***************************************************************************)
(* Properties of closed_wire, under SpecWire.                              *)
(***************************************************************************)
Closed1 == pc \in {"closed", "reclosed"}

FirstStart(w) == w.edges[1].s

LastEnd(w) == w.edges[Len(w.edges)].e

\* the start and the end of the wire coincide within tolerance (a wire
\* without edges has neither)
EndsMeet(w) == Len(w.edges) = 0 \/ Distance(FirstStart(w), LastEnd(w)) <= _TOLERANCE

\* an open wire of two edges or more whose ends are further apart than the
\* tolerance
WantsClosingEdge(w) ==
    /\ ~is_wire_closed(w)
    /\ Len(w.edges) >= 2
    /\ Distance(FirstStart(w), LastEnd(w)) > _TOLERANCE

\* C5: whatever the number of edges of the input wire (0, 1, 2 or more), the
\* wire closed_wire returns is closed: its start and end points coincide
\* within tolerance.
C5_ReturnedWireIsClosed == Closed1 => EndsMeet(result.wire)

\* C7: for a wire of two edges or more, closed_wire applied to the wire that
\* closed_wire returned gives that same wire back: the same edges with the
\* same vertices, and no second closing segment.
C7_Idempotent ==
    (pc = "reclosed" /\ Len(wire.edges) >= 2) =>
        /\ again.wire = result.wire
        /\ again.wire.edges = result.wire.edges
        /\ ~again.appended

\* C7 witness: a wire of three edges got a closing segment, and was closed again
C7_Witness ==
    /\ pc = "reclosed"
    /\ Len(wire.edges) = 3
    /\ result.appended
    /\ Len(again.wire.edges) = 4

NbWires == Len(wires)

\* the call went through containment, parity and hole assignment
Nested == pc = "done" /\ NbWires >= 2

Depth(i) == Cardinality(included_in[i])

Even(k) == k % 2 = 0

\* containment is a strict partial order
StrictPartialOrder ==
    /\ \A i \in 1..NbWires : i \notin included_in[i]
    /\ \A i \in 1..NbWires : \A j \in included_in[i] : i \notin included_in[j]
    /\ \A i \in 1..NbWires : \A j \in included_in[i] : included_in[j] \subseteq included_in[i]

\* the wires around any wire are nested in one another
AncestorsNested ==
    \A i \in 1..NbWires : \A a \in included_in[i] : \A b \in included_in[i] :
        a = b \/ a \in included_in[b] \/ b \in included_in[a]

IsOuter(i) == \E x \in 1..Len(faces) : faces[x].outer = i

IsHole(i) ==
    \E x \in 1..Len(faces) : \E y \in 1..Len(faces[x].holes) : faces[x].holes[y] = i

ParityRule ==
    /\ \A i \in 1..NbWires : IsOuter(i) <=> Even(Depth(i))
    /\ \A i \in 1..NbWires : IsHole(i) <=> ~Even(Depth(i))
    /\ Len(faces) = Cardinality({i \in 1..NbWires : Even(Depth(i))})
    /\ \A x \in 1..Len(faces) : \A z \in 1..Len(faces) :
          faces[x].outer = faces[z].outer => x = z

\* three loops, the first around the second around the third
Concentric3 == included_in = <<{}, {1}, {1, 2}>>

Concentric3Faces ==
    /\ Len(faces) = 2
    /\ faces[1].outer = 1 /\ faces[1].holes = <<2>>
    /\ faces[2].outer = 3 /\ faces[2].holes = <<>>

\* C2 as stated: with two wires or more and containment a strict partial
\* order, a wire is an outer boundary exactly at even depth and a hole exactly
\* at odd depth, there are as many faces as even-depth wires, and three
\* concentric loops give two faces.
C2_ParityUnderPartialOrder ==
    (Nested /\ StrictPartialOrder) =>
        /\ ParityRule
        /\ Concentric3 => Concentric3Faces

\* C2 as amended: the same, when moreover the wires around any wire are
\* nested in one another (as they are for loops that do not intersect).
C2_ParityUnderNesting ==
    (Nested /\ StrictPartialOrder /\ AncestorsNested) =>
        /\ ParityRule
        /\ Concentric3 => Concentric3Faces

\* C2 witness: the three concentric loops, resolved
C2_Witness == Nested /\ Concentric3 /\ Len(faces) = 2

GroupOf(i) == CHOOSE x \in 1..Len(groups) :
                \E y \in 1..Len(groups[x].inners) : groups[x].inners[y] = i

\* C3: every odd-depth wire is put among the holes of the ancestor that has
\* the greatest number of ancestors of its own (one less than the wire's own
\* under a valid containment order); and a face that has holes has an outer
\* wire of even depth that contains each of them.
C3_NearestAncestor ==
    Nested =>
        /\ \A i \in 1..NbWires : ~Even(Depth(i)) =>
              /\ \E x \in 1..Len(groups) :
                    \E y \in 1..Len(groups[x].inners) : groups[x].inners[y] = i
              /\ groups[GroupOf(i)].key \in included_in[i]
              /\ \A a \in included_in[i] : Depth(a) <= Depth(groups[GroupOf(i)].key)
              /\ (StrictPartialOrder /\ AncestorsNested) =>
                    Depth(groups[GroupOf(i)].key) = Depth(i) - 1
        /\ \A x \in 1..Len(faces) : \A y \in 1..Len(faces[x].holes) :
              /\ Even(Depth(faces[x].outer))
              /\ faces[x].outer \in included_in[faces[x].holes[y]]

\* C3 witness: four concentric loops; the innermost is a hole of the face of
\* the loop right around it
C3_Witness ==
    /\ Nested
    /\ included_in = <<{}, {1}, {1, 2}, {1, 2, 3}>>
    /\ \E x \in 1..Len(faces) : faces[x].outer = 3 /\ faces[x].holes = <<4>>

\* C6: on wires that are not coplanar the call raises before any wire is
\* closed and before any face is produced; on no wires at all it yields
\* nothing and does not raise.
C6_NotCoplanarRaises ==
    /\ (pc # "created" /\ wires # <<>> /\ ~plane) =>
          pc = "raised" /\ fixed = <<>> /\ faces = <<>>
    /\ pc = "raised" => wires # <<>> /\ ~plane
    /\ (pc # "created" /\ wires = <<>>) => pc = "done" /\ faces = <<>>

\* C6 witness: a call on two wires or more has raised
C6_Witness == pc = "raised" /\ NbWires >= 2 /\ ~plane

FacesOf(k) == LET FromGroup(f) == f.group = k IN SelectSeq(faces, FromGroup)

FellBack(k) == \E x \in 1..Len(faces) : faces[x].group = k /\ faces[x].simple

\* what holds of every group whatever made it fall back: a group with one
\* outer yields one face with the group's holes, whatever other groups do
OneOuterOneFace ==
    \A x \in 1..Len(groups) :
        Len(groups[x].outers) = 1 =>
            FacesOf(groups[x].key) =
                <<[outer |-> groups[x].outers[1], holes |-> groups[x].inners,
                   group |-> groups[x].key, simple |-> FALSE]>>

\* every wire of a group that fell back is a face of its own, without holes
FallbackFaces ==
    \A x \in 1..Len(groups) :
        FellBack(groups[x].key) =>
            LET chain == groups[x].outers \o groups[x].inners
            IN  /\ Len(FacesOf(groups[x].key)) = Len(chain)
                /\ \A y \in 1..Len(chain) :
                      /\ FacesOf(groups[x].key)[y].outer = chain[y]
                      /\ FacesOf(groups[x].key)[y].holes = <<>>

\* C9 as stated: a group falls back (every wire its own face, a warning
\* logged) exactly when it holds more than one outer; a group with one outer
\* yields one face with its holes.
C9_FallbackOnManyOuters ==
    Nested =>
        /\ \A x \in 1..Len(groups) :
              FellBack(groups[x].key) <=> Len(groups[x].outers) > 1
        /\ OneOuterOneFace
        /\ FallbackFaces

\* C9 as amended: a group falls back exactly when it does not hold exactly
\* one outer, which happens only with no outer at all (its key is an
\* odd-depth wire); one warning is logged per such group.
C9_FallbackOnNoOuter ==
    Nested =>
        /\ \A x \in 1..Len(groups) :
              /\ FellBack(groups[x].key) <=> Len(groups[x].outers) # 1
              /\ Len(groups[x].outers) # 1 =>
                    /\ Len(groups[x].outers) = 0
                    /\ ~Even(Depth(groups[x].key))
        /\ Len(warnings) =
              Cardinality({x \in 1..Len(groups) : Len(groups[x].outers) # 1})
        /\ \A y \in 1..Len(warnings) : warnings[y] = 0
        /\ OneOuterOneFace
        /\ FallbackFaces

\* C9 witness: one group fell back while another gave a face with a hole
C9_Witness ==
    /\ Nested
    /\ warnings # <<>>
    /\ \E x \in 1..Len(faces) : ~faces[x].simple /\ faces[x].holes # <<>>

UsesAsOuter(i) == Cardinality({x \in 1..Len(faces) : faces[x].outer = i})

UsesAsHole(i) ==
    Cardinality({p \in (1..Len(faces)) \X (1..NbWires) :
                    /\ p[2] <= Len(faces[p[1]].holes)
                    /\ faces[p[1]].holes[p[2]] = i})

RECURSIVE NbHoles(_)
NbHoles(x) == IF x = 0 THEN 0 ELSE Len(faces[x].holes) + NbHoles(x - 1)

\* C10: whatever the containment answers, every input wire is used exactly
\* once over the output, as the outer wire of one face or as a hole of one
\* face; no group holds more than one outer; outers plus holes are n.
C10_EachWireOnce ==
    pc = "done" =>
        /\ \A i \in 1..NbWires : UsesAsOuter(i) + UsesAsHole(i) = 1
        /\ \A x \in 1..Len(groups) : Len(groups[x].outers) <= 1
        /\ Len(faces) + NbHoles(Len(faces)) = NbWires

\* C10 witness: two wires inside each other (both fall back), with a face
\* that has a hole beside them
C10_Witness ==
    /\ Nested
    /\ \E i \in 1..NbWires : \E j \in included_in[i] : i \in included_in[j]
    /\ \E x \in 1..Len(faces) : faces[x].holes # <<>>
    /\ Len(warnings) >= 2

(***************************************************************************)
(* Properties of curve_to_beziers, under SpecCurve.                        *)
(***************************************************************************)

\* C1: every Bezier segment yielded has a degree of at most the caller's
\* max_degree and is not rational, whatever the type, degree and rationality
\* of the curve.
C1_DegreeBound ==
    pc = "done" =>
        \A x \in 1..Len(beziers) :
            beziers[x].degree <= max_degree /\ ~beziers[x].rational

\* C4: a line yields exactly one segment, of degree 1, from the curve's value
\* at its first parameter to its value at its last parameter.
C4_LineSegment ==
    (pc = "done" /\ curve.type = "line") =>
        /\ Len(beziers) = 1
        /\ beziers[1].degree = 1
        /\ beziers[1].ends[1] = Value(curve, FirstParameter(curve))
        /\ beziers[1].ends[2] = Value(curve, LastParameter(curve))

====
